---- MODULE Spec2Model ----
(***************************************************************************)
(* Hangman (rcanat/disco-hangman).  main.py: the page-flow server with the *)
(* procedurally drawn, animated gallows.  hangman.py: the earlier server   *)
(* with picture files, the mad page and the table of previous games; its   *)
(* routes carry the prefix hangman_.                                       *)
(*                                                                         *)
(* Representation.  A Python str is a sequence of one-character strings    *)
(* (<<"D","O","G">> is "DOG"), so that indexing, iteration, upper() and    *)
(* the substring test are computed.  A list is a sequence.  A PIL image is *)
(* the sequence of draw calls made on it, in call order.  Floats are       *)
(* fixed-point integers (see math_sin).                                    *)
(***************************************************************************)
EXTENDS Integers, Sequences, FiniteSets, TLC

VARIABLES name, word, guessed_letters, wrong_guesses, previous_games,
          page, ret

vars == <<name, word, guessed_letters, wrong_guesses, previous_games, page, ret>>

stateVars == <<name, word, guessed_letters, wrong_guesses, previous_games>>

(***************************************************************************)
(* Bounds of the model (not program constants).                            *)
(***************************************************************************)
\* how many letters of GuessPool the player may type as a guess
MaxGuessLetters == 8
\* how many letters of RenderPool a drawn State may have guessed
MaxRenderLetters == 3
\* frame numbers tried on make_animation_frame are 0 .. MaxFrameNum
MaxFrameNum == 63
\* wrong_guesses of a drawn State ranges over -1 .. MaxWrongDrawn
MaxWrongDrawn == 7
\* how many letters of CallPool the State of a route call may have guessed
MaxCallLetters == 7
\* how many letters of ServerPool are typed into a server run in any order
MaxServerLetters == 4
\* games recorded in previous_games before no further game is recorded
MaxGames == 1

(***************************************************************************)
(* Gameplay constants                                                      *)
(***************************************************************************)
MAX_GUESSES == 6

WORD_LIST == << <<"S","T","I","N","K","Y">>,
                <<"C","A","R","P","E","T">>,
                <<"P","Y","T","H","O","N">>,
                <<"H","A","M","B","U","R","G","E","R">>,
                <<"B","U","C","K","E","T">> >>

ascii_uppercase == <<"A","B","C","D","E","F","G","H","I","J","K","L","M",
                     "N","O","P","Q","R","S","T","U","V","W","X","Y","Z">>

ascii_lowercase == <<"a","b","c","d","e","f","g","h","i","j","k","l","m",
                     "n","o","p","q","r","s","t","u","v","w","x","y","z">>

(***************************************************************************)
(* str and list primitives                                                 *)
(***************************************************************************)
Range(s) == {s[i] : i \in 1..Len(s)}

\* x in lst  (list membership by equality)
InList(x, lst) == \E i \in 1..Len(lst) : lst[i] = x

\* the position of character c in sequence s, 0 when absent
IndexOf(c, s) == IF \E i \in 1..Len(s) : s[i] = c
                 THEN CHOOSE i \in 1..Len(s) : s[i] = c
                 ELSE 0

\* sub in s  (str containment: sub occurs as a contiguous slice of s)
StrContains(sub, s) ==
    \E k \in 0..Len(s) :
        /\ k + Len(sub) <= Len(s)
        /\ \A j \in 1..Len(sub) : s[k + j] = sub[j]

\* one character of str.upper()
UpperChar(c) == LET k == IndexOf(c, ascii_lowercase)
                IN  IF k = 0 THEN c ELSE ascii_uppercase[k]

\* str.upper()
Upper(s) == [i \in 1..Len(s) |-> UpperChar(s[i])]

\* code point order of the characters that occur: digits, upper, lower
CodePoints == <<"0","1","2","3","4","5","6","7","8","9">>
              \o ascii_uppercase \o ascii_lowercase

Ord(c) == IndexOf(c, CodePoints)

\* a < b on str (lexicographic by code point)
RECURSIVE StrLess(_, _)
StrLess(a, b) ==
    IF Len(b) = 0 THEN FALSE
    ELSE IF Len(a) = 0 THEN TRUE
    ELSE IF Ord(Head(a)) < Ord(Head(b)) THEN TRUE
    ELSE IF Ord(Head(a)) > Ord(Head(b)) THEN FALSE
    ELSE StrLess(Tail(a), Tail(b))

\* insert x into the sorted list lst, after the elements not greater than x
RECURSIVE SortedInsert(_, _)
SortedInsert(x, lst) ==
    IF Len(lst) = 0 THEN <<x>>
    ELSE IF StrLess(x, Head(lst)) THEN <<x>> \o lst
    ELSE <<Head(lst)>> \o SortedInsert(x, Tail(lst))

\* list.sort() (stable insertion sort)
RECURSIVE Sort(_)
Sort(lst) == IF Len(lst) = 0 THEN <<>>
             ELSE SortedInsert(lst[Len(lst)], Sort(SubSeq(lst, 1, Len(lst) - 1)))

(***************************************************************************)
(* The State dataclass, as a record built from the server's variables      *)
(***************************************************************************)
State == [name |-> name, word |-> word, guessed_letters |-> guessed_letters,
          wrong_guesses |-> wrong_guesses, previous_games |-> previous_games]

(***************************************************************************)
(* Game predicates                                                         *)
(***************************************************************************)
\* mutation: a letter may be guessed again
is_valid_guess_again(guessed, guess) ==
    InList(guess, [i \in 1..Len(ascii_uppercase) |-> <<ascii_uppercase[i]>>])

is_valid_guess(guessed, guess) ==
    LET valid_letters == SelectSeq([i \in 1..Len(ascii_uppercase) |-> <<ascii_uppercase[i]>>],
                                   LAMBDA l : ~InList(l, guessed))
    IN  InList(guess, valid_letters)

\* mutation: one guessed letter of the word is enough
has_won_any(state) ==
    \E i \in 1..Len(state.word) : InList(<<state.word[i]>>, state.guessed_letters)

has_won(state) ==
    \A i \in 1..Len(state.word) : InList(<<state.word[i]>>, state.guessed_letters)

\* mutation: the game is lost one wrong guess later
has_lost_late(state) == state.wrong_guesses = MAX_GUESSES + 1

has_lost(state) == state.wrong_guesses = MAX_GUESSES

(***************************************************************************)
(* Graphics constants                                                      *)
(***************************************************************************)
IMAGE_WIDTH == 500
IMAGE_HEIGHT == 400
IMAGE_SIZE == <<IMAGE_WIDTH, IMAGE_HEIGHT>>

GALLOWS_LINE_THICKNESS == 5
GALLOWS_BASE_XCENTER == IMAGE_WIDTH - 100
GALLOWS_BASE_YPOS == IMAGE_HEIGHT - 100
GALLOWS_BASE_LENGTH_LEFT == 67
GALLOWS_BASE_LENGTH_RIGHT == 67
GALLOWS_POST_LENGTH == 267
GALLOWS_CROSSBEAM_LENGTH == 133
GALLOWS_ROPE_LENGTH == 33
GALLOWS_SUPPORT_SIZE == 33

HANGMAN_SILHOUETTE_COLOR == "lightgray"
HANGMAN_SOLID_COLOR == "tomato"
HANGMAN_LINE_THICKNESS == 5
HANGMAN_XCENTER == GALLOWS_BASE_XCENTER - GALLOWS_CROSSBEAM_LENGTH
HANGMAN_YTOP == GALLOWS_BASE_YPOS - GALLOWS_POST_LENGTH + GALLOWS_ROPE_LENGTH
HANGMAN_HEAD_RADIUS == 26
HANGMAN_MOUTH_YPOS == HANGMAN_YTOP + HANGMAN_HEAD_RADIUS + 8
HANGMAN_MOUTH_RADIUS == 8
HANGMAN_TORSO_TOP == HANGMAN_YTOP + 2 * HANGMAN_HEAD_RADIUS
HANGMAN_TORSO_LENGTH == 100
HANGMAN_ARM_TOP == HANGMAN_TORSO_TOP + 16
HANGMAN_ARM_LENGTH == 33
HANGMAN_LEG_TOP == HANGMAN_TORSO_TOP + HANGMAN_TORSO_LENGTH
HANGMAN_LEG_LENGTH == 33

SUNGLASSES_YPOS == HANGMAN_YTOP + HANGMAN_HEAD_RADIUS - 5
SUNGLASSES_BRIDGE_RADIUS == 3
SUNGLASSES_LENS_WIDTH == 16
SUNGLASSES_LENS_HEIGHT == 16
SUNGLASSES_FRAME_RADIUS == SUNGLASSES_BRIDGE_RADIUS + SUNGLASSES_LENS_WIDTH + 3

WORD_COLOR == "tomato"
WORD_LEFT_PAD == 33
LETTER_BLANK_THICKNESS == 4
LETTER_WIDTH == 33
LETTER_SPACING == 17
LETTER_BLANK_YPOS == IMAGE_HEIGHT - 33

NUM_FRAMES == 32
FRAME_DURATION == 50
LETTER_WAVE_HEIGHT == 9
LETTER_WAVE_DELAY == 3

(***************************************************************************)
(* Floating point, as fixed point.  An angle is an integer number of       *)
(* 1/ANGLE_SCALE radians; a sine value is an integer number of             *)
(* 1/SIN_SCALE.  All intermediate products stay below 2^31.                *)
(***************************************************************************)
ANGLE_SCALE == 1000000
SIN_SCALE == 10000

\* math.pi
MATH_PI == 3141593

\* the odd Taylor polynomial of sine up to x^9, in Horner form, for an
\* angle y in 0 .. pi/2 given in 1/SIN_SCALE radians
SinPoly(y) ==
    LET y2 == (y * y) \div SIN_SCALE
        t4 == SIN_SCALE - (y2 \div 72)
        t3 == SIN_SCALE - (((y2 * t4) \div SIN_SCALE) \div 42)
        t2 == SIN_SCALE - (((y2 * t3) \div SIN_SCALE) \div 20)
        t1 == SIN_SCALE - (((y2 * t2) \div SIN_SCALE) \div 6)
    IN  (y * t1) \div SIN_SCALE

\* math.sin(x): reduce x to one turn, fold it onto the first quadrant by
\* the symmetries of sine, evaluate the polynomial
math_sin(x) ==
    LET turn    == 2 * MATH_PI
        r       == x % turn
        quarter == MATH_PI \div 2
        toPoly(a) == SinPoly(a \div (ANGLE_SCALE \div SIN_SCALE))
    IN  IF r <= quarter THEN toPoly(r)
        ELSE IF r <= MATH_PI THEN toPoly(MATH_PI - r)
        ELSE IF r <= MATH_PI + quarter THEN 0 - toPoly(r - MATH_PI)
        ELSE 0 - toPoly(turn - r)

\* round(v) for a float v given in 1/SIN_SCALE: nearest integer, ties to
\* the even one
round(v) ==
    LET q == v \div SIN_SCALE
        r == v % SIN_SCALE
    IN  IF 2 * r < SIN_SCALE THEN q
        ELSE IF 2 * r > SIN_SCALE THEN q + 1
        ELSE IF q % 2 = 0 THEN q ELSE q + 1

(***************************************************************************)
(* Results of a call: a returned value or a raised exception               *)
(***************************************************************************)
Return(v) == [exception |-> "None", value |-> v]
Raise(e) == [exception |-> e]
Raised(r) == r.exception # "None"

\* [x] * n : an empty list when n <= 0
Repeat(x, n) == [i \in 1..(IF n < 0 THEN 0 ELSE n) |-> x]

(***************************************************************************)
(* make_animation_frame: the draw calls, in call order                     *)
(***************************************************************************)
\* PIL.Image.new("RGB", IMAGE_SIZE, "white")
new_image == [op |-> "new", part |-> "background", mode |-> "RGB",
              size |-> IMAGE_SIZE, color |-> "white"]

\* the polyline of the gallows
\* mutation: the line does not return to the top of the post after the
\* support
draw_gallows_open ==
    [op |-> "line", part |-> "gallows",
     xy |-> << <<GALLOWS_BASE_XCENTER - GALLOWS_BASE_LENGTH_LEFT, GALLOWS_BASE_YPOS>>,
               <<GALLOWS_BASE_XCENTER + GALLOWS_BASE_LENGTH_RIGHT, GALLOWS_BASE_YPOS>>,
               <<GALLOWS_BASE_XCENTER, GALLOWS_BASE_YPOS>>,
               <<GALLOWS_BASE_XCENTER, GALLOWS_BASE_YPOS - GALLOWS_POST_LENGTH>>,
               <<GALLOWS_BASE_XCENTER, GALLOWS_BASE_YPOS - GALLOWS_POST_LENGTH + GALLOWS_SUPPORT_SIZE>>,
               <<GALLOWS_BASE_XCENTER - GALLOWS_SUPPORT_SIZE, GALLOWS_BASE_YPOS - GALLOWS_POST_LENGTH>>,
               <<HANGMAN_XCENTER, GALLOWS_BASE_YPOS - GALLOWS_POST_LENGTH>>,
               <<HANGMAN_XCENTER, HANGMAN_YTOP>> >>,
     fill |-> "black", width |-> GALLOWS_LINE_THICKNESS, joint |-> "curve"]

draw_gallows ==
    [op |-> "line", part |-> "gallows",
     xy |-> << \* base
               <<GALLOWS_BASE_XCENTER - GALLOWS_BASE_LENGTH_LEFT, GALLOWS_BASE_YPOS>>,
               <<GALLOWS_BASE_XCENTER + GALLOWS_BASE_LENGTH_RIGHT, GALLOWS_BASE_YPOS>>,
               \* post
               <<GALLOWS_BASE_XCENTER, GALLOWS_BASE_YPOS>>,
               <<GALLOWS_BASE_XCENTER, GALLOWS_BASE_YPOS - GALLOWS_POST_LENGTH>>,
               \* support
               <<GALLOWS_BASE_XCENTER, GALLOWS_BASE_YPOS - GALLOWS_POST_LENGTH + GALLOWS_SUPPORT_SIZE>>,
               <<GALLOWS_BASE_XCENTER - GALLOWS_SUPPORT_SIZE, GALLOWS_BASE_YPOS - GALLOWS_POST_LENGTH>>,
               <<GALLOWS_BASE_XCENTER, GALLOWS_BASE_YPOS - GALLOWS_POST_LENGTH>>,
               \* crossbar
               <<HANGMAN_XCENTER, GALLOWS_BASE_YPOS - GALLOWS_POST_LENGTH>>,
               \* rope
               <<HANGMAN_XCENTER, HANGMAN_YTOP>> >>,
     fill |-> "black", width |-> GALLOWS_LINE_THICKNESS, joint |-> "curve"]

\* mutation: one silhouette colour too few
body_part_colors_short(state) ==
    Repeat(HANGMAN_SOLID_COLOR, state.wrong_guesses)
    \o Repeat(HANGMAN_SILHOUETTE_COLOR, MAX_GUESSES - state.wrong_guesses - 1)

\* mutation: the silhouette colours come first
body_part_colors_reversed(state) ==
    Repeat(HANGMAN_SILHOUETTE_COLOR, MAX_GUESSES - state.wrong_guesses)
    \o Repeat(HANGMAN_SOLID_COLOR, state.wrong_guesses)

\* the list of colours, indexed by the order the body parts change colour
body_part_colors(state) ==
    Repeat(HANGMAN_SOLID_COLOR, state.wrong_guesses)
    \o Repeat(HANGMAN_SILHOUETTE_COLOR, MAX_GUESSES - state.wrong_guesses)

\* the indices of body_part_colors that make_animation_frame reads
SlotsRead == {0, 1, 2, 3, 4, 5}

\* colors[k] of a Python list (0-based); only used with k < Len(colors)
ListGet(colors, k) == colors[k + 1]

\* the ten draw calls of the hangman, given the colour list
draw_hangman(colors) ==
    << [op |-> "line", part |-> "left arm",
        xy |-> << <<HANGMAN_XCENTER, HANGMAN_ARM_TOP>>,
                  <<HANGMAN_XCENTER - HANGMAN_ARM_LENGTH, HANGMAN_ARM_TOP + HANGMAN_ARM_LENGTH>> >>,
        fill |-> ListGet(colors, 2), width |-> HANGMAN_LINE_THICKNESS + 1],
       [op |-> "line", part |-> "right arm",
        xy |-> << <<HANGMAN_XCENTER, HANGMAN_ARM_TOP>>,
                  <<HANGMAN_XCENTER + HANGMAN_ARM_LENGTH, HANGMAN_ARM_TOP + HANGMAN_ARM_LENGTH>> >>,
        fill |-> ListGet(colors, 3), width |-> HANGMAN_LINE_THICKNESS + 1],
       [op |-> "line", part |-> "left leg",
        xy |-> << <<HANGMAN_XCENTER, HANGMAN_LEG_TOP>>,
                  <<HANGMAN_XCENTER - HANGMAN_LEG_LENGTH, HANGMAN_LEG_TOP + HANGMAN_LEG_LENGTH>> >>,
        fill |-> ListGet(colors, 4), width |-> HANGMAN_LINE_THICKNESS + 1],
       [op |-> "line", part |-> "right leg",
        xy |-> << <<HANGMAN_XCENTER, HANGMAN_LEG_TOP>>,
                  <<HANGMAN_XCENTER + HANGMAN_LEG_LENGTH, HANGMAN_LEG_TOP + HANGMAN_LEG_LENGTH>> >>,
        fill |-> ListGet(colors, 5), width |-> HANGMAN_LINE_THICKNESS + 1],
       [op |-> "line", part |-> "torso",
        xy |-> << <<HANGMAN_XCENTER, HANGMAN_TORSO_TOP>>,
                  <<HANGMAN_XCENTER, HANGMAN_TORSO_TOP + HANGMAN_TORSO_LENGTH>> >>,
        fill |-> ListGet(colors, 1), width |-> HANGMAN_LINE_THICKNESS],
       [op |-> "circle", part |-> "head",
        xy |-> <<HANGMAN_XCENTER, HANGMAN_YTOP + HANGMAN_HEAD_RADIUS>>,
        radius |-> HANGMAN_HEAD_RADIUS,
        outline |-> ListGet(colors, 0), width |-> HANGMAN_LINE_THICKNESS],
       [op |-> "line", part |-> "mouth",
        xy |-> << <<HANGMAN_XCENTER - HANGMAN_MOUTH_RADIUS, HANGMAN_MOUTH_YPOS>>,
                  <<HANGMAN_XCENTER + HANGMAN_MOUTH_RADIUS, HANGMAN_MOUTH_YPOS>> >>,
        fill |-> ListGet(colors, 0), width |-> 2],
       [op |-> "line", part |-> "bridge",
        xy |-> << <<HANGMAN_XCENTER - SUNGLASSES_FRAME_RADIUS, SUNGLASSES_YPOS>>,
                  <<HANGMAN_XCENTER + SUNGLASSES_FRAME_RADIUS, SUNGLASSES_YPOS>> >>,
        fill |-> ListGet(colors, 0), width |-> 2],
       [op |-> "chord", part |-> "left lens",
        xy |-> << <<HANGMAN_XCENTER - SUNGLASSES_BRIDGE_RADIUS - SUNGLASSES_LENS_WIDTH,
                    SUNGLASSES_YPOS - (SUNGLASSES_LENS_HEIGHT \div 2)>>,
                  <<HANGMAN_XCENTER - SUNGLASSES_BRIDGE_RADIUS,
                    SUNGLASSES_YPOS + (SUNGLASSES_LENS_HEIGHT \div 2)>> >>,
        start |-> 0, end |-> 180, fill |-> ListGet(colors, 0)],
       [op |-> "chord", part |-> "right lens",
        xy |-> << <<HANGMAN_XCENTER + SUNGLASSES_BRIDGE_RADIUS,
                    SUNGLASSES_YPOS - (SUNGLASSES_LENS_HEIGHT \div 2)>>,
                  <<HANGMAN_XCENTER + SUNGLASSES_BRIDGE_RADIUS + SUNGLASSES_LENS_WIDTH,
                    SUNGLASSES_YPOS + (SUNGLASSES_LENS_HEIGHT \div 2)>> >>,
        start |-> 0, end |-> 180, fill |-> ListGet(colors, 0)] >>

\* mutation: the letters stand twice as far apart
letter_start_pos_wide(i) == WORD_LEFT_PAD + i * 2 * (LETTER_WIDTH + LETTER_SPACING)

\* the leftmost x position of the blank of letter i (0-based)
letter_start_pos(i) == WORD_LEFT_PAD + i * (LETTER_WIDTH + LETTER_SPACING)

\* mutation: every letter is at the same place of the wave
wave_func_pos_nodelay(frame_num, i) ==
    ((MATH_PI * 2) \div NUM_FRAMES) * frame_num

\* mutation: the wave is one frame short of a full turn
wave_func_pos_short(frame_num, i) ==
    ((MATH_PI * 2) \div (NUM_FRAMES - 1)) * (frame_num + i * LETTER_WAVE_DELAY)

\* the position in the sine wave for letter i, in 1/ANGLE_SCALE radians
wave_func_pos(frame_num, i) ==
    ((MATH_PI * 2) \div NUM_FRAMES) * (frame_num + i * LETTER_WAVE_DELAY)

\* the amount the y position is adjusted for this frame, in 1/SIN_SCALE
wave_height_adjustment(frame_num, i) ==
    LETTER_WAVE_HEIGHT * math_sin(wave_func_pos(frame_num, i))

\* the int y position of the blank of letter i
adjusted_letter_ypos(frame_num, i) ==
    LETTER_BLANK_YPOS - round(wave_height_adjustment(frame_num, i))

\* the draw call of the blank of letter i at height y
draw_blank(i, y) ==
    [op |-> "line", part |-> "blank",
     xy |-> << <<letter_start_pos(i), y>>,
               <<letter_start_pos(i) + LETTER_WIDTH, y>> >>,
     fill |-> "black", width |-> LETTER_BLANK_THICKNESS]

\* the draw call of the glyph of letter i at height y; the x of its anchor
\* is letter_start_pos + 0.5 * LETTER_WIDTH, kept in half pixels (x2 = 2x)
draw_text(i, y, letter) ==
    [op |-> "text", part |-> "letter",
     x2 |-> 2 * letter_start_pos(i) + LETTER_WIDTH,
     y |-> y,
     text |-> letter, fill |-> WORD_COLOR, anchor |-> "md",
     stroke_width |-> 1, font_size |-> LETTER_WIDTH]

\* mutation: the glyph is drawn for the letters not guessed yet
letter_is_shown_inverted(state, letter) == ~InList(letter, state.guessed_letters)

\* letter in state.guessed_letters
letter_is_shown(state, letter) == InList(letter, state.guessed_letters)

\* the loop over enumerate(state.word), from index i on
RECURSIVE draw_letters(_, _, _)
draw_letters(state, frame_num, i) ==
    IF i >= Len(state.word) THEN <<>>
    ELSE LET letter == <<state.word[i + 1]>>
             y == adjusted_letter_ypos(frame_num, i)
         IN  <<draw_blank(i, y)>>
             \o (IF letter_is_shown(state, letter)
                 THEN <<draw_text(i, y, letter)>>
                 ELSE <<>>)
             \o draw_letters(state, frame_num, i + 1)

\* mutation: the figure blinks, its colours follow the frame number
make_animation_frame_blink(state, frame_num) ==
    LET colors == body_part_colors([state EXCEPT !.wrong_guesses = frame_num % (MAX_GUESSES + 1)])
    IN  Return(<<new_image, draw_gallows>>
               \o draw_hangman(colors)
               \o draw_letters(state, frame_num, 0))

\* a lookup body_part_colors[k] past the end of the list
colour_lookup_fails(state) ==
    \E k \in SlotsRead : k >= Len(body_part_colors(state))

\* mutation: head and torso are drawn first, in the order the parts change
\* colour
make_animation_frame_head_first(state, frame_num) ==
    LET colors == body_part_colors(state)
        h == draw_hangman(colors)
    IN  IF colour_lookup_fails(state)
        THEN Raise("IndexError")
        ELSE Return(<<new_image, draw_gallows>>
                    \o <<h[6], h[5]>> \o SubSeq(h, 1, 4) \o SubSeq(h, 7, 10)
                    \o draw_letters(state, frame_num, 0))

\* make_animation_frame(state, frame_num): the frame, or the IndexError of
\* a colour lookup past the end of body_part_colors
make_animation_frame(state, frame_num) ==
    LET colors == body_part_colors(state)
    IN  IF colour_lookup_fails(state)
        THEN Raise("IndexError")
        ELSE Return(<<new_image, draw_gallows>>
                    \o draw_hangman(colors)
                    \o draw_letters(state, frame_num, 0))

\* the list comprehension of make_animation, from frame number i up to
\* n - 1: the results of the calls, in call order
RECURSIVE frames_from(_, _, _)
frames_from(state, i, n) ==
    IF i >= n THEN <<>>
    ELSE <<make_animation_frame(state, i)>> \o frames_from(state, i + 1, n)

\* the first exception among the results, or the list of their values
AllOrFirstException(results) ==
    IF \E k \in 1..Len(results) : Raised(results[k])
    THEN Raise(results[CHOOSE k \in 1..Len(results) :
                          /\ Raised(results[k])
                          /\ \A j \in 1..(k - 1) : ~Raised(results[j])].exception)
    ELSE Return([k \in 1..Len(results) |-> results[k].value])

\* mutation: the last frame is missing
make_animation_short(state) ==
    AllOrFirstException(frames_from(state, 0, NUM_FRAMES - 1))

\* make_animation(state):
\* [make_animation_frame(state, i) for i in range(NUM_FRAMES)]
make_animation(state) ==
    AllOrFirstException(frames_from(state, 0, NUM_FRAMES))

(***************************************************************************)
(* Encoding                                                                *)
(***************************************************************************)
\* Image.save(format="GIF", save_all=True, append_images=rest, duration=d,
\* loop=l) called on image first: the GIF holds first, then rest, each
\* frame with delay d
gif_save(first, rest, d, l) ==
    LET images == <<first>> \o rest
    IN  [format |-> "GIF", loop |-> l,
         frames |-> [k \in 1..Len(images) |-> [image |-> images[k], delay |-> d]]]

\* base64.b64encode(data).decode("utf-8"): the text is kept as its content
b64encode(data) == [base64 |-> data]

\* mutation: the slice of the appended images starts one frame late
generate_animation_uri_skip(animation) ==
    IF Len(animation) = 0 THEN Raise("IndexError")
    ELSE Return([scheme |-> "data:image/gif;base64,",
                 payload |-> b64encode(gif_save(animation[1], Tail(Tail(animation)), FRAME_DURATION, 0))])

\* mutation: an empty animation is encoded as a GIF without frames
generate_animation_uri_lenient(animation) ==
    Return([scheme |-> "data:image/gif;base64,",
            payload |-> b64encode([format |-> "GIF", loop |-> 0,
                                   frames |-> [k \in 1..Len(animation) |->
                                       [image |-> animation[k], delay |-> FRAME_DURATION]]])])

\* generate_animation_uri(animation): animation[0] raises IndexError on an
\* empty list; animation[1:] is the tail
generate_animation_uri(animation) ==
    IF Len(animation) = 0 THEN Raise("IndexError")
    ELSE Return([scheme |-> "data:image/gif;base64,",
                 payload |-> b64encode(gif_save(animation[1], Tail(animation), FRAME_DURATION, 0))])

\* generate_animation_html(animation)
generate_animation_html(animation) ==
    LET uri == generate_animation_uri(animation)
    IN  IF Raised(uri) THEN uri
        ELSE Return([tag |-> "img", src |-> uri.value])

(***************************************************************************)
(* Routes.  A route is an operator from the State (and the form fields)    *)
(* to the State it leaves and the Page it returns.                         *)
(***************************************************************************)
\* sep.join(lst)
RECURSIVE StrJoin(_, _)
StrJoin(sep, lst) ==
    IF Len(lst) = 0 THEN <<>>
    ELSE IF Len(lst) = 1 THEN lst[1]
    ELSE lst[1] \o sep \o StrJoin(sep, Tail(lst))

\* a route that ends in an exception: the server shows its error page
error_page(state, e) ==
    [state |-> state, page |-> [route |-> "error", exception |-> e]]

index(state) ==
    [state |-> state,
     page |-> [route |-> "index", text |-> "Welcome to Hangman!",
               image |-> "title_screen.png", buttons |-> {"new_game"}]]

new_game(state) ==
    [state |-> state,
     page |-> [route |-> "new_game", text |-> "Please enter your name:",
               textbox |-> [name |-> "name", default |-> state.name],
               buttons |-> {"initialize_game"}]]

\* The animation embedded in the game page is a pure function of the State
\* it is rendered from.  The Page keeps it as the call that yields it;
\* Embedded(animation) is its value.
Animation(state) ==
    [call |-> "generate_animation_html(make_animation(state))", state |-> state]

Embedded(animation) ==
    LET frames == make_animation(animation.state)
    IN  IF Raised(frames) THEN frames
        ELSE generate_animation_html(frames.value)

\* the exception that rendering the animation of state ends in, or "None":
\* a colour lookup fails in the first frame, or there is no frame to encode
animation_exception(state) ==
    IF NUM_FRAMES > 0 /\ colour_lookup_fails(state) THEN "IndexError"
    ELSE IF NUM_FRAMES <= 0 THEN "IndexError"
    ELSE "None"

\* the content of the game page
game_page_content(state) ==
    [route |-> "game_page", text |-> "Guess a Letter!",
     animation |-> Animation(state),
     textbox |-> [name |-> "guess", default |-> <<>>],
     buttons |-> {"check_guess"},
     guessed_display |-> <<"Guessed Letters: ">>
                         \o StrJoin(<<",", " ">>, state.guessed_letters)]

\* mutation: rendering consumes the guessed letters
game_page_clearing(state) ==
    [state |-> [state EXCEPT !.guessed_letters = <<>>],
     page |-> game_page_content(state)]

game_page(state) ==
    IF animation_exception(state) # "None"
    THEN error_page(state, animation_exception(state))
    ELSE [state |-> state, page |-> game_page_content(state)]

\* chosen is the outcome of random.choice(WORD_LIST)
initialize_game(state, nm, chosen) ==
    game_page([state EXCEPT !.name = nm, !.word = chosen])

win_screen(state) ==
    [state |-> state,
     page |-> [route |-> "win_screen", text |-> "You won! The word was ",
               word |-> state.word, image |-> "win.png", buttons |-> {"reset"}]]

lose_screen(state) ==
    [state |-> state,
     page |-> [route |-> "lose_screen", text |-> "You lost! The word was ",
               word |-> state.word, image |-> "lose.png", buttons |-> {"reset"}]]

\* mutation: the guess is appended and the list is not sorted
check_guess_unsorted(state, typed) ==
    LET guess == Upper(typed)
        valid == is_valid_guess(state.guessed_letters, guess)
        \* add the guess to the list of guessed letters
        s1 == IF valid
              THEN [state EXCEPT !.guessed_letters = Append(state.guessed_letters, guess)]
              ELSE state
        \* check if the guess is wrong
        s2 == IF valid /\ ~StrContains(guess, state.word)
              THEN [s1 EXCEPT !.wrong_guesses = s1.wrong_guesses + 1]
              ELSE s1
    IN  IF has_won(s2) THEN win_screen(s2)
        ELSE IF has_lost(s2) THEN lose_screen(s2)
        ELSE game_page(s2)

\* mutation: the guess is taken as typed
check_guess_cased(state, typed) ==
    LET guess == typed
        valid == is_valid_guess(state.guessed_letters, guess)
        \* add the guess to the list of guessed letters
        s1 == IF valid
              THEN [state EXCEPT !.guessed_letters = Sort(Append(state.guessed_letters, guess))]
              ELSE state
        \* check if the guess is wrong
        s2 == IF valid /\ ~StrContains(guess, state.word)
              THEN [s1 EXCEPT !.wrong_guesses = s1.wrong_guesses + 1]
              ELSE s1
    IN  IF has_won(s2) THEN win_screen(s2)
        ELSE IF has_lost(s2) THEN lose_screen(s2)
        ELSE game_page(s2)

\* mutation: the lose test comes before the win test
check_guess_lose_first(state, typed) ==
    LET guess == Upper(typed)
        valid == is_valid_guess(state.guessed_letters, guess)
        \* add the guess to the list of guessed letters
        s1 == IF valid
              THEN [state EXCEPT !.guessed_letters = Sort(Append(state.guessed_letters, guess))]
              ELSE state
        \* check if the guess is wrong
        s2 == IF valid /\ ~StrContains(guess, state.word)
              THEN [s1 EXCEPT !.wrong_guesses = s1.wrong_guesses + 1]
              ELSE s1
    IN  IF has_lost(s2) THEN lose_screen(s2)
        ELSE IF has_won(s2) THEN win_screen(s2)
        ELSE game_page(s2)

check_guess(state, typed) ==
    LET guess == Upper(typed)
        valid == is_valid_guess(state.guessed_letters, guess)
        \* add the guess to the list of guessed letters
        s1 == IF valid
              THEN [state EXCEPT !.guessed_letters = Sort(Append(state.guessed_letters, guess))]
              ELSE state
        \* check if the guess is wrong
        s2 == IF valid /\ ~StrContains(guess, state.word)
              THEN [s1 EXCEPT !.wrong_guesses = s1.wrong_guesses + 1]
              ELSE s1
    IN  IF has_won(s2) THEN win_screen(s2)
        ELSE IF has_lost(s2) THEN lose_screen(s2)
        ELSE game_page(s2)

\* mutation: the count of wrong guesses survives
reset_keeps_count(state) ==
    index([state EXCEPT !.word = <<>>, !.guessed_letters = <<>>])

reset(state) ==
    index([state EXCEPT !.word = <<>>, !.guessed_letters = <<>>, !.wrong_guesses = 0])

(***************************************************************************)
(* hangman.py: the routes of the server with picture files.  Its State,    *)
(* is_valid_guess, has_won and has_lost are those of main.py, line for     *)
(* line; a previous game is a GameResult.                                  *)
(***************************************************************************)
GameResult(nm, wd, guesses, won) ==
    [name |-> nm, word |-> wd, guesses |-> guesses, won |-> won]

hangman_index(state) ==
    [state |-> state,
     page |-> [route |-> "index", text |-> "Welcome to Hangman!",
               image |-> "title_screen.png",
               buttons |-> {"new_game", "previous_games"}]]

hangman_new_game(state) ==
    [state |-> state,
     page |-> [route |-> "new_game", text |-> "Please enter your name:",
               textbox |-> [name |-> "name", default |-> state.name],
               buttons |-> {"initialize_game"}]]

\* the positions of the guessed characters, '_' for the others
word_display(state) ==
    StrJoin(<<" ">>,
            [i \in 1..Len(state.word) |->
                IF InList(<<state.word[i]>>, state.guessed_letters)
                THEN <<state.word[i]>> ELSE <<"_">>])

hangman_game_page(state) ==
    [state |-> state,
     page |-> [route |-> "game_page", text |-> "Guess a Letter!",
               image |-> [stem |-> "hangman", number |-> state.wrong_guesses,
                          ext |-> ".png"],
               word_display |-> word_display(state),
               textbox |-> [name |-> "guess", default |-> <<>>],
               buttons |-> {"check_guess", "reset"},
               guessed_display |-> <<"Guessed Letters: ">>
                                   \o StrJoin(<<",", " ">>, state.guessed_letters)]]

\* chosen is the outcome of random.choice(word_list) over words.txt
hangman_initialize_game(state, nm, chosen) ==
    hangman_game_page([state EXCEPT !.name = nm, !.word = Upper(chosen)])

\* mutation: Larry leaves no guess at all
hangman_mad_harsh(state, guess) ==
    [state |-> [state EXCEPT !.wrong_guesses = MAX_GUESSES],
     page |-> [route |-> "mad", image |-> "mad.png", guess |-> guess,
               buttons |-> {"game_page"}]]

hangman_mad(state, guess) ==
    [state |-> [state EXCEPT !.wrong_guesses = MAX_GUESSES - 1],
     page |-> [route |-> "mad", image |-> "mad.png", guess |-> guess,
               buttons |-> {"game_page"}]]

\* mutation: the new record goes in front and counts the wrong guesses only
hangman_win_screen_front(state) ==
    [state |-> [state EXCEPT !.previous_games =
                    <<GameResult(state.name, state.word,
                                 state.wrong_guesses, TRUE)>>
                    \o state.previous_games],
     page |-> [route |-> "win_screen", text |-> "You won! The word was ",
               word |-> state.word, image |-> "win.png", buttons |-> {"reset"}]]

hangman_win_screen(state) ==
    [state |-> [state EXCEPT !.previous_games =
                    Append(state.previous_games,
                           GameResult(state.name, state.word,
                                      Len(state.guessed_letters), TRUE))],
     page |-> [route |-> "win_screen", text |-> "You won! The word was ",
               word |-> state.word, image |-> "win.png", buttons |-> {"reset"}]]

hangman_lose_screen(state) ==
    [state |-> [state EXCEPT !.previous_games =
                    Append(state.previous_games,
                           GameResult(state.name, state.word,
                                      Len(state.guessed_letters), FALSE))],
     page |-> [route |-> "lose_screen", text |-> "You lost! The word was ",
               word |-> state.word, image |-> "lose.png", buttons |-> {"reset"}]]

\* mutation: the guess is appended and the list is not sorted
hangman_check_guess_unsorted(state, typed) ==
    LET guess == Upper(typed)
        valid == is_valid_guess(state.guessed_letters, guess)
        \* add the guess to the list of guessed letters
        s1 == [state EXCEPT !.guessed_letters = Append(state.guessed_letters, guess)]
        \* check if the guess is wrong
        s2 == IF ~StrContains(guess, state.word)
              THEN [s1 EXCEPT !.wrong_guesses = s1.wrong_guesses + 1]
              ELSE s1
    IN  IF ~valid THEN hangman_mad(state, guess)
        ELSE IF has_won(s2) THEN hangman_win_screen(s2)
        ELSE IF has_lost(s2) THEN hangman_lose_screen(s2)
        ELSE hangman_game_page(s2)

hangman_check_guess(state, typed) ==
    LET guess == Upper(typed)
        valid == is_valid_guess(state.guessed_letters, guess)
        \* add the guess to the list of guessed letters
        s1 == [state EXCEPT !.guessed_letters = Sort(Append(state.guessed_letters, guess))]
        \* check if the guess is wrong
        s2 == IF ~StrContains(guess, state.word)
              THEN [s1 EXCEPT !.wrong_guesses = s1.wrong_guesses + 1]
              ELSE s1
    IN  IF ~valid THEN hangman_mad(state, guess)
        ELSE IF has_won(s2) THEN hangman_win_screen(s2)
        ELSE IF has_lost(s2) THEN hangman_lose_screen(s2)
        ELSE hangman_game_page(s2)

hangman_previous_games(state) ==
    [state |-> state,
     page |-> [route |-> "previous_games", buttons |-> {"reset"},
               display |-> IF Len(state.previous_games) > 0
                           THEN [table |-> state.previous_games]
                           ELSE [text |-> "No previous games. Go play one!"]]]

hangman_reset(state) ==
    hangman_index([state EXCEPT !.word = <<>>, !.guessed_letters = <<>>,
                                !.wrong_guesses = 0])

(***************************************************************************)
(* Inputs                                                                  *)
(***************************************************************************)
\* the letters a player types, most useful first
GuessPool == <<"B","U","C","K","E","T","A","D","F","G","H","I","J","L">>

\* guesses typed into the text box: letters, a lowercase letter, the empty
\* text, a digit, two letters
GuessInputs == {<<GuessPool[i]>> : i \in 1..MaxGuessLetters}
               \cup {<<"b">>, <<>>, <<"2">>, <<"A","B">>}

\* names typed into the text box
NameInputs == {<<"A","l">>}

(***************************************************************************)
(* The server: start_server(State("", "", [], 0, [])) and one action per   *)
(* route; any route may be requested at any time.                          *)
(***************************************************************************)
NoCall == [fn |-> "none"]

Init ==
    /\ name = <<>>
    /\ word = <<>>
    /\ guessed_letters = <<>>
    /\ wrong_guesses = 0
    /\ previous_games = <<>>
    /\ page = index(State).page
    /\ ret = NoCall

\* the State and the Page a route call leaves
Serve(route, result) == \E r \in {result} :
    /\ name' = r.state.name
    /\ word' = r.state.word
    /\ guessed_letters' = r.state.guessed_letters
    /\ wrong_guesses' = r.state.wrong_guesses
    /\ previous_games' = r.state.previous_games
    /\ page' = r.page
    /\ ret' = [fn |-> route]

RouteIndex == Serve("index", index(State))

RouteNewGame == Serve("new_game", new_game(State))

RouteInitializeGame ==
    \E nm \in NameInputs : \E k \in 1..Len(WORD_LIST) :
        Serve("initialize_game", initialize_game(State, nm, WORD_LIST[k]))

RouteGamePage == Serve("game_page", game_page(State))

RouteCheckGuess ==
    \E typed \in GuessInputs : Serve("check_guess", check_guess(State, typed))

RouteWinScreen == Serve("win_screen", win_screen(State))

RouteLoseScreen == Serve("lose_screen", lose_screen(State))

RouteReset == Serve("reset", reset(State))

Next ==
    \/ RouteIndex
    \/ RouteNewGame
    \/ RouteInitializeGame
    \/ RouteGamePage
    \/ RouteCheckGuess
    \/ RouteWinScreen
    \/ RouteLoseScreen
    \/ RouteReset

Spec == Init /\ [][Next]_vars

(***************************************************************************)
(* The renderer and the encoder as pure functions: a State is drawn from   *)
(* bounded sets, and one function is applied to it (the functions keep no  *)
(* state between calls, so a second call from the same State adds nothing).*)
(***************************************************************************)
\* the letters a drawn State may have guessed
RenderPool == <<"O","R","D","E","T","A">>

RenderLetters == {RenderPool[i] : i \in 1..MaxRenderLetters}

\* the words a drawn State may hold: no word yet, a short word, WORD_LIST
RenderWords == {<<>>, <<"D","O","G">>} \cup Range(WORD_LIST)

\* the ascending list of the letters of S
RECURSIVE SortedList(_)
SortedList(S) ==
    IF S = {} THEN <<>>
    ELSE LET m == CHOOSE c \in S : \A d \in S : Ord(c) <= Ord(d)
         IN  <<<<m>>>> \o SortedList(S \ {m})

InitRender ==
    /\ name = <<>>
    /\ word \in RenderWords
    /\ guessed_letters \in {SortedList(S) : S \in SUBSET RenderLetters}
    /\ wrong_guesses \in (-1)..MaxWrongDrawn
    /\ previous_games = <<>>
    /\ page = index(State).page
    /\ ret = NoCall

CallMakeAnimationFrame ==
    /\ ret = NoCall
    /\ \E f \in 0..MaxFrameNum :
        /\ ret' = [fn |-> "make_animation_frame", frame_num |-> f,
                   result |-> make_animation_frame(State, f)]
        /\ UNCHANGED <<stateVars, page>>

CallMakeAnimation ==
    /\ ret = NoCall
    /\ ret' = [fn |-> "make_animation", result |-> make_animation(State)]
    /\ UNCHANGED <<stateVars, page>>

\* generate_animation_uri on the animation of the State, and on no frames
CallGenerateAnimationUri ==
    /\ ret = NoCall
    /\ \E animation \in {<<>>} \cup (LET a == make_animation(State)
                                     IN  IF Raised(a) THEN {} ELSE {a.value}) :
        /\ ret' = [fn |-> "generate_animation_uri", frames |-> Len(animation),
                   result |-> generate_animation_uri(animation)]
        /\ UNCHANGED <<stateVars, page>>

\* the route game_page, with the animation it embeds
RenderGamePage ==
    /\ ret = NoCall
    /\ \E r \in {game_page(State)} :
        /\ name' = r.state.name
        /\ word' = r.state.word
        /\ guessed_letters' = r.state.guessed_letters
        /\ wrong_guesses' = r.state.wrong_guesses
        /\ previous_games' = r.state.previous_games
        /\ page' = r.page
        /\ ret' = [fn |-> "game_page",
                   result |-> IF r.page.route = "error"
                              THEN Raise(r.page.exception)
                              ELSE Embedded(r.page.animation)]

NextRender ==
    \/ CallMakeAnimationFrame
    \/ CallMakeAnimation
    \/ CallGenerateAnimationUri
    \/ RenderGamePage

SpecRender == InitRender /\ [][NextRender]_vars

(***************************************************************************)
(* The routes and the predicates called on a State, as the unit tests and  *)
(* the route tests at the end of both files call them: a State is drawn,   *)
(* one function is applied to it, and ret keeps the call: the State before *)
(* it, the guess typed, the value returned.  The server of main.py never   *)
(* records a game and takes its words from WORD_LIST, so its routes are    *)
(* called on such States only.                                             *)
(***************************************************************************)
\* the letters the State of a call may have guessed
CallPool == <<"B","U","C","K","E","O","L","D","G">>

\* no word yet, a word with a repeated letter, two words of WORD_LIST
CallWords == {<<>>, <<"B","O","O","L">>, WORD_LIST[3], WORD_LIST[5]}

CallGames == {<<>>, <<GameResult(<<"E","v">>, <<"D","O","G">>, 5, TRUE)>>}

\* guesses typed: a letter of two words, a letter that may be guessed
\* already, a letter of no word, the same in lowercase, the empty text, a
\* digit, two letters
CallGuesses == {<<"T">>, <<"O">>, <<"A">>, <<"t">>, <<"o">>, <<"a">>,
                <<>>, <<"2">>, <<"A","B">>}

\* guesses handed to is_valid_guess: every uppercase letter as well
ValidGuessInputs == CallGuesses \cup Range([i \in 1..Len(ascii_uppercase) |-> <<ascii_uppercase[i]>>])

InitRoutes ==
    /\ name \in NameInputs
    /\ word \in CallWords
    /\ guessed_letters \in {SortedList(S) : S \in SUBSET {CallPool[i] : i \in 1..MaxCallLetters}}
    /\ wrong_guesses \in 0..MaxWrongDrawn
    /\ previous_games \in CallGames
    /\ page = hangman_index(State).page
    /\ ret = NoCall

\* a State the server of main.py can hold
MainState == previous_games = <<>> /\ word \in {<<>>} \cup Range(WORD_LIST)

\* the State and the Page a called route leaves
Called(call, result) == \E r \in {result} :
    /\ name' = r.state.name
    /\ word' = r.state.word
    /\ guessed_letters' = r.state.guessed_letters
    /\ wrong_guesses' = r.state.wrong_guesses
    /\ previous_games' = r.state.previous_games
    /\ page' = r.page
    /\ ret' = call

\* is_valid_guess(guessed_letters, guess): no other field of a State is read
CallIsValidGuess ==
    /\ ret = NoCall
    /\ word = <<>> /\ wrong_guesses = 0 /\ previous_games = <<>>
    /\ \E guess \in ValidGuessInputs :
        ret' = [fn |-> "is_valid_guess", guess |-> guess,
                result |-> is_valid_guess(guessed_letters, guess)]
    /\ UNCHANGED <<stateVars, page>>

CallHasWon ==
    /\ ret = NoCall
    /\ ret' = [fn |-> "has_won", result |-> has_won(State)]
    /\ UNCHANGED <<stateVars, page>>

CallHasLost ==
    /\ ret = NoCall
    /\ ret' = [fn |-> "has_lost", result |-> has_lost(State)]
    /\ UNCHANGED <<stateVars, page>>

CallCheckGuess ==
    /\ ret = NoCall
    /\ MainState
    /\ \E typed \in CallGuesses :
        Called([fn |-> "check_guess", file |-> "main.py", guess |-> typed,
                before |-> State],
               check_guess(State, typed))

CallHangmanCheckGuess ==
    /\ ret = NoCall
    /\ \E typed \in CallGuesses :
        Called([fn |-> "check_guess", file |-> "hangman.py", guess |-> typed,
                before |-> State],
               hangman_check_guess(State, typed))

CallReset ==
    /\ ret = NoCall
    /\ MainState
    /\ Called([fn |-> "reset", file |-> "main.py", before |-> State],
              reset(State))

CallHangmanReset ==
    /\ ret = NoCall
    /\ Called([fn |-> "reset", file |-> "hangman.py", before |-> State],
              hangman_reset(State))

CallHangmanWinScreen ==
    /\ ret = NoCall
    /\ Called([fn |-> "win_screen", file |-> "hangman.py", before |-> State],
              hangman_win_screen(State))

CallHangmanLoseScreen ==
    /\ ret = NoCall
    /\ Called([fn |-> "lose_screen", file |-> "hangman.py", before |-> State],
              hangman_lose_screen(State))

NextRoutes ==
    \/ CallIsValidGuess
    \/ CallHasWon
    \/ CallHasLost
    \/ CallCheckGuess
    \/ CallHangmanCheckGuess
    \/ CallReset
    \/ CallHangmanReset
    \/ CallHangmanWinScreen
    \/ CallHangmanLoseScreen

SpecRoutes == InitRoutes /\ [][NextRoutes]_vars

(***************************************************************************)
(* Both servers, route by route.  ret keeps the file that was started and  *)
(* the route served last.  A run either follows the buttons of the page    *)
(* shown (SpecButtons) or requests any route of the file at any time       *)
(* (SpecServers).                                                          *)
(***************************************************************************)
\* words.txt of hangman.py: words separated by white space, any case
HangmanWordList == << <<"e","b","b">> >>

\* the routes of a file
Routes(file) ==
    IF file = "main.py"
    THEN {"index", "new_game", "initialize_game", "game_page", "check_guess",
          "win_screen", "lose_screen", "reset"}
    ELSE {"index", "new_game", "initialize_game", "game_page", "check_guess",
          "mad", "win_screen", "lose_screen", "previous_games", "reset"}

\* the buttons a page offers, by the route each one requests
Buttons(p) == IF p.route = "error" THEN {} ELSE p.buttons

\* what a route of a file returns on the State; text is the form field sent
\* with the request, chosen the outcome of random.choice
RouteResult(file, route, text, chosen) ==
    IF file = "main.py"
    THEN CASE route = "index" -> index(State)
           [] route = "new_game" -> new_game(State)
           [] route = "initialize_game" -> initialize_game(State, text, chosen)
           [] route = "game_page" -> game_page(State)
           [] route = "check_guess" -> check_guess(State, text)
           [] route = "win_screen" -> win_screen(State)
           [] route = "lose_screen" -> lose_screen(State)
           [] route = "reset" -> reset(State)
    ELSE CASE route = "index" -> hangman_index(State)
           [] route = "new_game" -> hangman_new_game(State)
           [] route = "initialize_game" -> hangman_initialize_game(State, text, chosen)
           [] route = "game_page" -> hangman_game_page(State)
           [] route = "check_guess" -> hangman_check_guess(State, text)
           [] route = "mad" -> hangman_mad(State, text)
           [] route = "win_screen" -> hangman_win_screen(State)
           [] route = "lose_screen" -> hangman_lose_screen(State)
           [] route = "previous_games" -> hangman_previous_games(State)
           [] route = "reset" -> hangman_reset(State)

\* the form field sent with a request; guesses are the texts typed as guess
FormTexts(route, guesses) ==
    IF route = "initialize_game" THEN NameInputs
    ELSE IF route \in {"check_guess", "mad"} THEN guesses
    ELSE {<<>>}

\* the outcomes of random.choice in a route of a file
Choices(file, route) ==
    IF route # "initialize_game" THEN {<<>>}
    ELSE IF file = "main.py" THEN Range(WORD_LIST)
    ELSE Range(HangmanWordList)

\* the letters typed into a run that requests routes in any order
ServerPool == <<"D","A","B","O","G">>

ServerGuesses == {<<ServerPool[i]>> : i \in 1..MaxServerLetters}
                 \cup {<<"d">>, <<>>, <<"2">>, <<"A","B">>}

InitServers ==
    /\ name = <<>>
    /\ word = <<>>
    /\ guessed_letters = <<>>
    /\ wrong_guesses = 0
    /\ previous_games = <<>>
    /\ \E file \in {"main.py", "hangman.py"} :
        /\ page = RouteResult(file, "index", <<>>, <<>>).page
        /\ ret = [fn |-> "start_server", file |-> file]

\* a route of the started file is requested and answered
Request(route, guesses) ==
    /\ route \in Routes(ret.file)
    /\ \E text \in FormTexts(route, guesses) : \E chosen \in Choices(ret.file, route) :
        \E r \in {RouteResult(ret.file, route, text, chosen)} :
            /\ Len(r.state.previous_games) <= MaxGames
            /\ name' = r.state.name
            /\ word' = r.state.word
            /\ guessed_letters' = r.state.guessed_letters
            /\ wrong_guesses' = r.state.wrong_guesses
            /\ previous_games' = r.state.previous_games
            /\ page' = r.page
            /\ ret' = [fn |-> route, file |-> ret.file]

\* a button of the page shown is pressed
Follow(route) == route \in Buttons(page) /\ Request(route, GuessInputs)

FollowNewGame == Follow("new_game")

FollowInitializeGame == Follow("initialize_game")

FollowCheckGuess == Follow("check_guess")

FollowGamePage == Follow("game_page")

FollowPreviousGames == Follow("previous_games")

FollowReset == Follow("reset")

NextButtons ==
    \/ FollowNewGame
    \/ FollowInitializeGame
    \/ FollowCheckGuess
    \/ FollowGamePage
    \/ FollowPreviousGames
    \/ FollowReset

SpecButtons == InitServers /\ [][NextButtons]_vars

RequestIndex == Request("index", ServerGuesses)

RequestNewGame == Request("new_game", ServerGuesses)

RequestInitializeGame == Request("initialize_game", ServerGuesses)

RequestGamePage == Request("game_page", ServerGuesses)

RequestCheckGuess == Request("check_guess", ServerGuesses)

RequestMad == Request("mad", ServerGuesses)

RequestWinScreen == Request("win_screen", ServerGuesses)

RequestLoseScreen == Request("lose_screen", ServerGuesses)

RequestPreviousGames == Request("previous_games", ServerGuesses)

RequestReset == Request("reset", ServerGuesses)

NextServers ==
    \/ RequestIndex
    \/ RequestNewGame
    \/ RequestInitializeGame
    \/ RequestGamePage
    \/ RequestCheckGuess
    \/ RequestMad
    \/ RequestWinScreen
    \/ RequestLoseScreen
    \/ RequestPreviousGames
    \/ RequestReset

SpecServers == InitServers /\ [][NextServers]_vars

(***************************************************************************)
(* Properties                                                              *)
(***************************************************************************)
\* the draw calls of a frame that belong to one part, in call order
FrameOps(frame, part) == SelectSeq(frame, LAMBDA o : o.part = part)

\* the colour a draw call paints with
ColourOf(o) == IF o.op = "circle" THEN o.outline ELSE o.fill

\* the order in which the body parts change colour
BodyPartOrder == <<"head", "torso", "left arm", "right arm", "left leg", "right leg">>

\* round(9 * sin(2 * pi * n / 32)) for n = 0 .. 15, from the exact sine
RefWave == <<0, 2, 3, 5, 6, 7, 8, 9, 9, 9, 8, 7, 6, 5, 3, 2>>

\* round(9 * sin(2 * pi * n / 32)) for every n >= 0
RefOffset(n) == IF n % 32 < 16 THEN RefWave[(n % 32) + 1]
                ELSE 0 - RefWave[(n % 32) - 15]

\* a frame was rendered by the last call
FrameRendered == ret.fn = "make_animation_frame" /\ ~Raised(ret.result)

\* C1: in every state reachable by route calls in any order,
\* 0 <= wrong_guesses <= MAX_GUESSES.
C1_WrongGuessesInRange == wrong_guesses \in 0..MAX_GUESSES

\* C2: with wrong_guesses = k in 0..6 the first k body parts of the order
\* head, torso, left arm, right arm, left leg, right leg are drawn in the
\* highlight colour and the other 6 - k in the silhouette colour, each part
\* by its own draw call.
C2_BodyPartColours ==
    (ret.fn = "make_animation_frame" /\ wrong_guesses \in 0..MAX_GUESSES) =>
        /\ ~Raised(ret.result)
        /\ \A j \in 1..Len(BodyPartOrder) :
              LET ops == FrameOps(ret.result.value, BodyPartOrder[j])
              IN  /\ Len(ops) = 1
                  /\ ColourOf(ops[1]) = IF j <= wrong_guesses
                                        THEN HANGMAN_SOLID_COLOR
                                        ELSE HANGMAN_SILHOUETTE_COLOR

\* five wrong guesses: the left leg is highlighted, the right leg is not
C2_Witness ==
    /\ FrameRendered
    /\ wrong_guesses = 5
    /\ ColourOf(FrameOps(ret.result.value, "left leg")[1]) = HANGMAN_SOLID_COLOR
    /\ ColourOf(FrameOps(ret.result.value, "right leg")[1]) = HANGMAN_SILHOUETTE_COLOR

\* C3: a frame has exactly one blank per letter position of the word, and
\* the glyph of position i is drawn if and only if word[i] is in
\* guessed_letters.
C3_BlanksAndGlyphs ==
    FrameRendered =>
        LET blanks == FrameOps(ret.result.value, "blank")
            glyphs == FrameOps(ret.result.value, "letter")
        IN  /\ Len(blanks) = Len(word)
            /\ \A i \in 0..(Len(word) - 1) :
                  /\ blanks[i + 1].xy[1][1] = WORD_LEFT_PAD + i * (LETTER_WIDTH + LETTER_SPACING)
                  /\ (\E g \in 1..Len(glyphs) :
                         /\ glyphs[g].x2 = 2 * (WORD_LEFT_PAD + i * (LETTER_WIDTH + LETTER_SPACING)) + LETTER_WIDTH
                         /\ glyphs[g].text = <<word[i + 1]>>)
                     <=> InList(<<word[i + 1]>>, guessed_letters)
            /\ Len(glyphs) = Cardinality({i \in 1..Len(word) : InList(<<word[i]>>, guessed_letters)})

\* DOG with D and O guessed: three blanks, two glyphs
C3_Witness ==
    /\ FrameRendered
    /\ word = <<"D","O","G">>
    /\ guessed_letters = <<<<"D">>, <<"O">>>>
    /\ Len(FrameOps(ret.result.value, "blank")) = 3
    /\ Len(FrameOps(ret.result.value, "letter")) = 2

\* C4: for frame number f in 0..NUM_FRAMES-1 the blank and the glyph of
\* letter i are drawn at y = LETTER_BLANK_YPOS - round(9 * sin(2*pi/32 *
\* (f + 3*i))), with NUM_FRAMES = 32, LETTER_WAVE_HEIGHT = 9 and
\* LETTER_WAVE_DELAY = 3.
C4_WaveOffset ==
    /\ NUM_FRAMES = 32 /\ LETTER_WAVE_HEIGHT = 9 /\ LETTER_WAVE_DELAY = 3
    /\ (FrameRendered /\ ret.frame_num < NUM_FRAMES) =>
          LET blanks == FrameOps(ret.result.value, "blank")
              glyphs == FrameOps(ret.result.value, "letter")
              y(i)   == LETTER_BLANK_YPOS - RefOffset(ret.frame_num + 3 * i)
          IN  /\ \A i \in 0..(Len(blanks) - 1) :
                    /\ blanks[i + 1].xy[1][2] = y(i)
                    /\ blanks[i + 1].xy[2][2] = y(i)
              /\ \A g \in 1..Len(glyphs) :
                    glyphs[g].y = y((glyphs[g].x2 - LETTER_WIDTH - 2 * WORD_LEFT_PAD)
                                    \div (2 * (LETTER_WIDTH + LETTER_SPACING)))

\* frame 5 of HAMBURGER: the first letter is lifted by 7, the last (phase
\* 5 + 3 * 8 = 29) is lowered by 5, and the guessed R is drawn
C4_Witness ==
    /\ FrameRendered
    /\ ret.frame_num = 5
    /\ Len(word) = 9
    /\ FrameOps(ret.result.value, "blank")[1].xy[1][2] = LETTER_BLANK_YPOS - 7
    /\ FrameOps(ret.result.value, "blank")[9].xy[1][2] = LETTER_BLANK_YPOS + 5
    /\ Len(FrameOps(ret.result.value, "letter")) > 0

\* the heights of the blanks of a frame, by letter position
BlankHeights(frame) ==
    LET blanks == FrameOps(frame, "blank")
    IN  [k \in 1..Len(blanks) |-> blanks[k].xy[1][2]]

\* C5: the vertical offset of every letter is the same at frame number
\* f + NUM_FRAMES as at frame number f.
C5_WavePeriodic ==
    (FrameRendered /\ ret.frame_num >= NUM_FRAMES) =>
        BlankHeights(ret.result.value)
            = BlankHeights(make_animation_frame(State, ret.frame_num - NUM_FRAMES).value)

\* frame 37 of a word, with a letter off the rest height
C5_Witness ==
    /\ FrameRendered
    /\ ret.frame_num = NUM_FRAMES + 5
    /\ Len(word) > 1
    /\ \E k \in 1..Len(word) : BlankHeights(ret.result.value)[k] # LETTER_BLANK_YPOS

\* C6: make_animation returns exactly NUM_FRAMES frames, the one at list
\* position i rendered with frame number i, and generate_animation_uri
\* encodes all of them in that order, each with delay FRAME_DURATION, with
\* loop count 0.
C6_AnimationFramesInOrder ==
    /\ ret.fn = "make_animation" =>
          /\ ~Raised(ret.result)
          /\ Len(ret.result.value) = NUM_FRAMES
          /\ \A k \in 1..NUM_FRAMES :
                Return(ret.result.value[k]) = make_animation_frame(State, k - 1)
    /\ (ret.fn = "generate_animation_uri" /\ ret.frames > 0) =>
          /\ ~Raised(ret.result)
          /\ ret.result.value.scheme = "data:image/gif;base64,"
          /\ LET gif == ret.result.value.payload.base64
             IN  /\ gif.format = "GIF"
                 /\ gif.loop = 0
                 /\ Len(gif.frames) = NUM_FRAMES
                 /\ \A k \in 1..NUM_FRAMES :
                       /\ gif.frames[k].delay = FRAME_DURATION
                       /\ Return(gif.frames[k].image) = make_animation_frame(State, k - 1)

\* the animation of a nine-letter word, encoded: 32 frames of 50 ms
C6_Witness ==
    /\ ret.fn = "generate_animation_uri"
    /\ ~Raised(ret.result)
    /\ Len(word) = 9
    /\ Len(ret.result.value.payload.base64.frames) = 32
    /\ ret.result.value.payload.base64.frames[32].delay = 50

\* a draw call without the height of a letter blank or glyph
WithoutHeight(o) ==
    IF o.part = "blank"
    THEN [o EXCEPT !.xy = << <<o.xy[1][1], 0>>, <<o.xy[2][1], 0>> >>]
    ELSE IF o.part = "letter" THEN [o EXCEPT !.y = 0]
    ELSE o

\* a frame without the heights of its letter blanks and glyphs
Still(frame) == [j \in 1..Len(frame) |-> WithoutHeight(frame[j])]

\* C7: within one animation every draw call of the gallows and of the
\* figure is the same in all frames; two frames of one state differ only
\* in the y position of the letter blanks and glyphs.
C7_OnlyLettersMove ==
    (ret.fn = "make_animation" /\ ~Raised(ret.result)) =>
        \A k \in 2..Len(ret.result.value) :
            Still(ret.result.value[k]) = Still(ret.result.value[1])

\* an animation whose frames do differ, with a partly highlighted figure
C7_Witness ==
    /\ ret.fn = "make_animation"
    /\ ~Raised(ret.result)
    /\ wrong_guesses = 3
    /\ ret.result.value[1] # ret.result.value[2]

\* C8: rendering does not modify the State: the route game_page leaves
\* name, word, guessed_letters, wrong_guesses and previous_games unchanged.
C8_RenderKeepsState ==
    [][ret'.fn = "game_page" => UNCHANGED stateVars]_vars

\* game_page was served with its animation for a state with a word and
\* guessed letters
C8_Witness ==
    /\ ret.fn = "game_page"
    /\ ~Raised(ret.result)
    /\ page.route = "game_page"
    /\ Len(word) > 0
    /\ Len(guessed_letters) > 0
    /\ ret.result.value.src.payload.base64.frames[1].image
          = make_animation_frame(State, 0).value

\* C9: make_animation_frame called with wrong_guesses outside
\* 0..MAX_GUESSES reports an error instead of returning a frame.
C9_RendererRejectsOutOfRange ==
    (ret.fn = "make_animation_frame" /\ wrong_guesses \notin 0..MAX_GUESSES) =>
        Raised(ret.result)

C11_RenderingNeverFails ==
    (/\ ret.fn = "make_animation_frame"
     /\ wrong_guesses \in 0..MAX_GUESSES
     /\ ret.frame_num \in 0..(NUM_FRAMES - 1)) =>
        /\ Len(body_part_colors(State)) = MAX_GUESSES
        /\ \A k \in SlotsRead : k < Len(body_part_colors(State))
        /\ ~Raised(ret.result)

\* the last frame of a nine-letter word with no guess left and with none
\* made: the frame is returned with all its draw calls
C11_Witness ==
    /\ FrameRendered
    /\ wrong_guesses \in {0, MAX_GUESSES}
    /\ ret.frame_num = NUM_FRAMES - 1
    /\ Len(word) = 9
    /\ Len(ret.result.value) >= 2 + 10 + 9

\* the 26 uppercase English letters, as one-character strs
UppercaseLetters ==
    {<<"A">>, <<"B">>, <<"C">>, <<"D">>, <<"E">>, <<"F">>, <<"G">>, <<"H">>,
     <<"I">>, <<"J">>, <<"K">>, <<"L">>, <<"M">>, <<"N">>, <<"O">>, <<"P">>,
     <<"Q">>, <<"R">>, <<"S">>, <<"T">>, <<"U">>, <<"V">>, <<"W">>, <<"X">>,
     <<"Y">>, <<"Z">>}

\* g is one uppercase letter that the list guessed does not hold
FreshLetter(guessed, g) == g \in UppercaseLetters /\ g \notin Range(guessed)

\* C13: is_valid_guess(guessed_letters, guess) is True exactly when guess is
\* one of the 26 uppercase letters and is not in guessed_letters; so it is
\* False for the empty str, a digit, a lowercase letter, more than one
\* character and a letter guessed already.
C13_IsValidGuess ==
    ret.fn = "is_valid_guess" =>
        /\ ret.result = FreshLetter(guessed_letters, ret.guess)
        /\ (\/ ret.guess \in {<<>>, <<"2">>, <<"a">>, <<"o">>, <<"A","B">>}
            \/ ret.guess \in Range(guessed_letters)) => ret.result = FALSE

\* a letter guessed already is refused while its neighbours are accepted
C13_Witness ==
    /\ ret.fn = "is_valid_guess"
    /\ ret.guess = <<"O">>
    /\ guessed_letters = << <<"B">>, <<"O">> >>
    /\ ret.result = FALSE

\* C14: has_won(state) is True exactly when every letter of the word is in
\* guessed_letters, whatever wrong_guesses is, whatever other letters were
\* guessed, and however often a letter occurs in the word.
C14_HasWon ==
    ret.fn = "has_won" =>
        ret.result = ({<<c>> : c \in Range(word)} \subseteq Range(guessed_letters))

\* BOOL is won with B, L, O and two more letters guessed, all guesses spent
C14_Witness ==
    /\ ret.fn = "has_won"
    /\ word = <<"B","O","O","L">>
    /\ guessed_letters = << <<"B">>, <<"E">>, <<"L">>, <<"O">>, <<"U">> >>
    /\ wrong_guesses = MAX_GUESSES
    /\ ret.result = TRUE

\* C15: has_lost(state) is True exactly when no guess remains, that is when
\* wrong_guesses has reached MAX_GUESSES, and False for every smaller
\* wrong_guesses, whatever the word and the guessed letters are.
C15_HasLost ==
    ret.fn = "has_lost" => ret.result = (wrong_guesses >= MAX_GUESSES)

\* the uppercase counterpart of a typed str, letter by letter
Uppercased(typed) ==
    [i \in 1..Len(typed) |->
        IF \E k \in 1..Len(ascii_lowercase) : ascii_lowercase[k] = typed[i]
        THEN ascii_uppercase[CHOOSE k \in 1..Len(ascii_lowercase) :
                                 ascii_lowercase[k] = typed[i]]
        ELSE typed[i]]

\* check_guess of either file has been called
CheckGuessCalled == ret.fn = "check_guess"

\* the guess of the call was accepted: an unguessed letter after upper-casing
GuessAccepted ==
    CheckGuessCalled /\ FreshLetter(ret.before.guessed_letters, Uppercased(ret.guess))

\* lst is in strictly ascending order of its letters
Ascending(lst) ==
    \A i, j \in 1..Len(lst) : i < j => Ord(lst[i][1]) < Ord(lst[j][1])

\* C16: after check_guess with a valid guess, guessed_letters is the previous
\* list plus the upper-cased letter, in ascending order; wrong_guesses is one
\* more if the letter does not occur in word and unchanged if it does; name
\* and word are unchanged, and so is previous_games unless the game ends.
C16_ValidGuessUpdatesState ==
    GuessAccepted =>
        LET letter == Uppercased(ret.guess)
        IN  /\ Range(guessed_letters) = Range(ret.before.guessed_letters) \cup {letter}
            /\ Len(guessed_letters) = Len(ret.before.guessed_letters) + 1
            /\ Ascending(guessed_letters)
            /\ wrong_guesses = ret.before.wrong_guesses
                                + (IF letter[1] \in Range(word) THEN 0 ELSE 1)
            /\ name = ret.before.name
            /\ word = ret.before.word
            /\ page.route = "game_page" => previous_games = ret.before.previous_games

\* a wrong lowercase letter lands between two guessed letters, the game goes on
C16_Witness ==
    /\ GuessAccepted
    /\ ret.file = "hangman.py"
    /\ ret.guess = <<"o">>
    /\ word = <<"B","U","C","K","E","T">>
    /\ ret.before.guessed_letters = << <<"B">>, <<"U">> >>
    /\ guessed_letters = << <<"B">>, <<"O">>, <<"U">> >>
    /\ wrong_guesses = ret.before.wrong_guesses + 1
    /\ page.route = "game_page"
    /\ previous_games # <<>>

\* what check_guess of the called file yields for another guess on the State
\* before the call
CheckGuessOn(typed) ==
    IF ret.file = "main.py" THEN check_guess(ret.before, typed)
    ELSE hangman_check_guess(ret.before, typed)

\* C17: check_guess with a lowercase letter leaves the same State and returns
\* the same Page as check_guess with the uppercase letter on the same State.
C17_CaseInsensitive ==
    (/\ CheckGuessCalled
     /\ Len(ret.guess) = 1
     /\ ret.guess[1] \in Range(ascii_lowercase)) =>
        /\ State = CheckGuessOn(Uppercased(ret.guess)).state
        /\ page = CheckGuessOn(Uppercased(ret.guess)).page

\* a lowercase t is a right guess in PYTHON, as T is
C17_Witness ==
    /\ CheckGuessCalled
    /\ ret.file = "main.py"
    /\ ret.guess = <<"t">>
    /\ word = <<"P","Y","T","H","O","N">>
    /\ InList(<<"T">>, guessed_letters)
    /\ wrong_guesses = ret.before.wrong_guesses
    /\ page.route = "game_page"

C19_InvalidGuessIsMad ==
    (CheckGuessCalled /\ ret.file = "hangman.py" /\ ~GuessAccepted) =>
        /\ page.route = "mad"
        /\ wrong_guesses = MAX_GUESSES - 1
        /\ name = ret.before.name
        /\ word = ret.before.word
        /\ guessed_letters = ret.before.guessed_letters
        /\ previous_games = ret.before.previous_games

\* a repeated letter on a won game with no wrong guess
C19_Witness ==
    /\ CheckGuessCalled
    /\ ret.file = "hangman.py"
    /\ ret.guess = <<"o">>
    /\ ret.before.word = <<"B","O","O","L">>
    /\ ret.before.guessed_letters = << <<"B">>, <<"L">>, <<"O">> >>
    /\ ret.before.wrong_guesses = 0
    /\ page.route = "mad"
    /\ wrong_guesses = MAX_GUESSES - 1

\* what reset of the called file yields on the State it has left
ResetAgain ==
    IF ret.file = "main.py" THEN reset(State) ELSE hangman_reset(State)

\* C20: reset leaves word "", guessed_letters [] and wrong_guesses 0, keeps
\* name and previous_games, and returns the index page; a second reset
\* leaves the same State.
C20_Reset ==
    ret.fn = "reset" =>
        /\ word = <<>>
        /\ guessed_letters = <<>>
        /\ wrong_guesses = 0
        /\ name = ret.before.name
        /\ previous_games = ret.before.previous_games
        /\ page.route = "index"
        /\ ResetAgain.state = State

\* a lost game with a recorded game is reset
C20_Witness ==
    /\ ret.fn = "reset"
    /\ ret.before.word = <<"P","Y","T","H","O","N">>
    /\ ret.before.guessed_letters # <<>>
    /\ ret.before.wrong_guesses = MAX_GUESSES
    /\ ret.before.previous_games # <<>>
    /\ name = <<"A","l">>
    /\ page.route = "index"

\* a call of hangman.py has returned the win screen or the lose screen
HangmanGameOverShown ==
    /\ ret.fn \in {"check_guess", "win_screen", "lose_screen"}
    /\ ret.file = "hangman.py"
    /\ page.route \in {"win_screen", "lose_screen"}

\* C21: in hangman.py the win screen (the lose screen) leaves previous_games
\* as it was plus one last record: the name and the word of the State, the
\* number of guessed letters, right and wrong together, and won = True
\* (False).
C21_GameResultAppended ==
    HangmanGameOverShown =>
        /\ Len(previous_games) = Len(ret.before.previous_games) + 1
        /\ \A k \in 1..Len(ret.before.previous_games) :
               previous_games[k] = ret.before.previous_games[k]
        /\ previous_games[Len(previous_games)] =
               [name |-> name, word |-> word,
                guesses |-> Cardinality(Range(guessed_letters)),
                won |-> (page.route = "win_screen")]

\* BUCKET is won by its last letter with two wrong letters guessed before,
\* after one recorded game
C21_Witness ==
    /\ HangmanGameOverShown
    /\ ret.fn = "check_guess"
    /\ page.route = "win_screen"
    /\ word = <<"B","U","C","K","E","T">>
    /\ Len(previous_games) = 2
    /\ previous_games[2].guesses = 8
    /\ previous_games[2].won = TRUE

\* C22: in a run that only presses the buttons of the pages shown, whatever
\* is typed as name or guess, every game page shows an undecided game:
\* wrong_guesses is in 0..MAX_GUESSES-1 (so hangman.py asks for one of
\* hangman0.png .. hangman5.png), word is not empty, and some letter of word
\* is not guessed.
C22_GamePageOnlyWhileUndecided ==
    page.route = "game_page" =>
        /\ wrong_guesses \in 0..(MAX_GUESSES - 1)
        /\ ret.file = "hangman.py" => page.image.number \in 0..(MAX_GUESSES - 1)
        /\ word # <<>>
        /\ \E i \in 1..Len(word) : <<word[i]>> \notin Range(guessed_letters)

\* the second game of hangman.py, back from the mad page with one guess left
C22_Witness ==
    /\ page.route = "game_page"
    /\ ret = [fn |-> "game_page", file |-> "hangman.py"]
    /\ wrong_guesses = MAX_GUESSES - 1
    /\ Len(guessed_letters) >= 2
    /\ Len(previous_games) = 1

\* C23: whatever routes are requested, in whatever order, guessed_letters
\* holds single uppercase English letters only, none of them twice, in
\* ascending order; so it never holds more than 26.
C23_GuessedLettersSortedUnique ==
    /\ Range(guessed_letters) \subseteq UppercaseLetters
    /\ Cardinality(Range(guessed_letters)) = Len(guessed_letters)
    /\ Ascending(guessed_letters)
    /\ Len(guessed_letters) <= 26

\* three letters typed out of order, one of them twice, in hangman.py
C23_Witness ==
    /\ ret = [fn |-> "check_guess", file |-> "hangman.py"]
    /\ guessed_letters = << <<"A">>, <<"B">>, <<"D">> >>
    /\ page.route = "mad"

\* the parts of the figure, in the order their draw calls are to be issued
FigureOrder ==
    <<"left arm", "right arm", "left leg", "right leg", "torso", "head",
      "mouth", "bridge", "left lens", "right lens">>

\* the parts of the draw calls of a frame, in call order
PartsOf(frame) == [k \in 1..Len(frame) |-> frame[k].part]

\* C24: for every state and frame number, make_animation_frame draws on the
\* blank image the gallows first, then left arm, right arm, left leg, right
\* leg, torso, head outline, mouth, sunglasses bridge, left lens, right
\* lens, in this order, and the blanks and letters of the word after them.
C24_DrawOrder ==
    FrameRendered =>
        LET parts == PartsOf(ret.result.value)
        IN  /\ Len(parts) >= 2 + Len(FigureOrder)
            /\ SubSeq(parts, 1, 2) = <<"background", "gallows">>
            /\ SubSeq(parts, 3, 2 + Len(FigureOrder)) = FigureOrder
            /\ \A k \in (3 + Len(FigureOrder))..Len(parts) :
                   parts[k] \in {"blank", "letter"}

\* a frame of DOG with two letters shown: gallows, ten parts, five word calls
C24_Witness ==
    /\ FrameRendered
    /\ word = <<"D","O","G">>
    /\ wrong_guesses = 2
    /\ ret.frame_num = 5
    /\ Len(ret.result.value) = 2 + 10 + 5
    /\ ret.result.value[7].part = "torso"
    /\ ret.result.value[16].part = "letter"
    /\ ret.result.value[17].part = "blank"

\* the corners of the gallows, from the layout constants only
GallowsPoints ==
    { <<GALLOWS_BASE_XCENTER - GALLOWS_BASE_LENGTH_LEFT, GALLOWS_BASE_YPOS>>,
      <<GALLOWS_BASE_XCENTER + GALLOWS_BASE_LENGTH_RIGHT, GALLOWS_BASE_YPOS>>,
      <<GALLOWS_BASE_XCENTER, GALLOWS_BASE_YPOS>>,
      <<GALLOWS_BASE_XCENTER, GALLOWS_BASE_YPOS - GALLOWS_POST_LENGTH>>,
      <<GALLOWS_BASE_XCENTER, GALLOWS_BASE_YPOS - GALLOWS_POST_LENGTH + GALLOWS_SUPPORT_SIZE>>,
      <<GALLOWS_BASE_XCENTER - GALLOWS_SUPPORT_SIZE, GALLOWS_BASE_YPOS - GALLOWS_POST_LENGTH>>,
      <<HANGMAN_XCENTER, GALLOWS_BASE_YPOS - GALLOWS_POST_LENGTH>>,
      <<HANGMAN_XCENTER, HANGMAN_YTOP>> }

\* the segments of a polyline, each as the set of its two ends
Segments(xy) == {{xy[k], xy[k + 1]} : k \in 1..(Len(xy) - 1)}

\* C25: every frame holds one gallows draw call, a single line through 8
\* fixed points that come from the layout constants alone (base, post,
\* support, crossbar, rope), the same for every state and frame number.
C25_GallowsPolyline ==
    FrameRendered =>
        LET gallows == FrameOps(ret.result.value, "gallows")
        IN  /\ Len(gallows) = 1
            /\ gallows[1].op = "line"
            /\ Range(gallows[1].xy) = GallowsPoints
            /\ Cardinality(Range(gallows[1].xy)) = 8
            \* the base, the post, the support, the beam from the support
            \* to the post, the crossbar and the rope are all drawn
            /\ Cardinality(Segments(gallows[1].xy)) = 8

\* the same gallows under a full figure and a late frame
C25_Witness ==
    /\ FrameRendered
    /\ wrong_guesses = MAX_GUESSES
    /\ ret.frame_num = 17
    /\ Len(word) = 6
    /\ Len(FrameOps(ret.result.value, "gallows")[1].xy) = 9

\* C26: for every word of WORD_LIST, every letter index i and every frame
\* number in 0..NUM_FRAMES-1, the blank of letter i starts at x =
\* WORD_LEFT_PAD + i * (LETTER_WIDTH + LETTER_SPACING), with 0 <= x and
\* x + LETTER_WIDTH <= IMAGE_WIDTH, at a y within LETTER_WAVE_HEIGHT of
\* LETTER_BLANK_YPOS, which is below the gallows base and above the bottom
\* edge of the image.
C26_BlanksInsideCanvas ==
    (/\ FrameRendered
     /\ word \in Range(WORD_LIST)
     /\ ret.frame_num \in 0..(NUM_FRAMES - 1)) =>
        LET blanks == FrameOps(ret.result.value, "blank")
        IN  /\ Len(blanks) = Len(word)
            /\ \A i \in 0..(Len(word) - 1) :
                  LET x == blanks[i + 1].xy[1][1]
                      y == blanks[i + 1].xy[1][2]
                  IN  /\ x = WORD_LEFT_PAD + i * (LETTER_WIDTH + LETTER_SPACING)
                      /\ blanks[i + 1].xy[2] = <<x + LETTER_WIDTH, y>>
                      /\ 0 <= x
                      /\ x + LETTER_WIDTH <= IMAGE_WIDTH
                      /\ y >= LETTER_BLANK_YPOS - LETTER_WAVE_HEIGHT
                      /\ y <= LETTER_BLANK_YPOS + LETTER_WAVE_HEIGHT
                      /\ y > GALLOWS_BASE_YPOS
                      /\ y < IMAGE_HEIGHT

\* HAMBURGER: the ninth blank ends 34 pixels from the right edge, and in
\* frame 8 the first blank is at the top of the wave
C26_Witness ==
    /\ FrameRendered
    /\ word = WORD_LIST[4]
    /\ ret.frame_num = 8
    /\ FrameOps(ret.result.value, "blank")[9].xy[2][1] = IMAGE_WIDTH - 34
    /\ FrameOps(ret.result.value, "blank")[1].xy[1][2] = LETTER_BLANK_YPOS - LETTER_WAVE_HEIGHT

====
